---- MODULE Spec2Model ----
(***************************************************************************)
(* A model of coinbase_liquidation.py: the CoinbaseLiquidationBot pipeline *)
(* (load credentials, read the portfolio, build the liquidation plan,      *)
(* confirm, execute or simulate, report) and main's exit code.             *)
(*                                                                         *)
(* Python floats are modelled as binary floating-point numbers with a      *)
(* MantBits-bit significand and round-to-nearest-even, <<m, e>> standing   *)
(* for m * 2^e (CPython: 53 bits).  Strings are sequences of one-character *)
(* strings, so that float(s) and the f-string formatting are computed.     *)
(*                                                                         *)
(* Three specifications: Spec is main running run_liquidation; PlanSpec is *)
(* calculate_liquidation_plan on any list of balances, price lookups       *)
(* included; FormatSpec is _format_amount_for_order on any amount.         *)
(*                                                                         *)
(* Left out: infinities and NaN, the log file, KeyboardInterrupt and an    *)
(* end of input at the prompt.  A timestamp is the clock's count of        *)
(* seconds.                                                                *)
(***************************************************************************)
EXTENDS Integers, Sequences, FiniteSets, TLC

\* Bits of the significand of a float of the model (CPython doubles: 53).
MantBits == 14

----------------------------------------------------------------------------
(* Floating-point arithmetic: every operation rounds the exact result to   *)
(* the nearest float, ties to even, as IEEE 754 and CPython do.            *)

Zero == <<0, 0>>

\* n / d rounded to the nearest integer, ties to the even one.
RoundHalfEven(n, d) ==
    LET q == n \div d
        r == n % d
    IN  IF 2 * r < d THEN q
        ELSE IF 2 * r > d THEN q + 1
        ELSE IF q % 2 = 0 THEN q ELSE q + 1

\* <<n', d', s>> with n'/d' = (n/d) * 2^s and 2^(MantBits-1) <= n'/d' < 2^MantBits.
RECURSIVE ScaleToMant(_, _, _)
ScaleToMant(n, d, s) ==
    IF n < 2^(MantBits - 1) * d THEN ScaleToMant(2 * n, d, s + 1)
    ELSE IF n >= 2^MantBits * d THEN ScaleToMant(n, 2 * d, s - 1)
    ELSE <<n, d, s>>

\* The float nearest to the rational n / (d * 2^k), n >= 0, d > 0.
RoundRat(n, d, k) ==
    IF n = 0 THEN Zero
    ELSE LET t == ScaleToMant(n, d, 0)
             m == RoundHalfEven(t[1], t[2])
             e == 0 - t[3] - k
         IN  IF m = 2^MantBits THEN <<2^(MantBits - 1), e + 1>> ELSE <<m, e>>

\* a * b on floats.
FMul(a, b) == RoundRat(a[1] * b[1], 1, 0 - (a[2] + b[2]))

\* a / b on floats, b # 0.
FDiv(a, b) == RoundRat(a[1], b[1], b[2] - a[2])

\* a < b on floats (both normalised, non-negative).
FLt(a, b) ==
    IF a[1] = 0 THEN b[1] > 0
    ELSE IF b[1] = 0 THEN FALSE
    ELSE IF a[2] # b[2] THEN a[2] < b[2]
    ELSE a[1] < b[1]

FLe(a, b) == a = b \/ FLt(a, b)

\* math.floor(x) of a non-negative float: a Python int.
Floor(x) == IF x[2] >= 0 THEN x[1] * 2^(x[2]) ELSE x[1] \div 2^(0 - x[2])

\* float(n) for a Python int n >= 0.
IntToFloat(n) == RoundRat(n, 1, 0)

\* i / j on Python ints (true division): the exact quotient, rounded once.
\* j is a power of ten 10^p, given by p.
IntDivPow10(i, p) == RoundRat(i, 5^p, p)

----------------------------------------------------------------------------
(* Strings: sequences of one-character strings.                            *)

DigitChars == <<"0", "1", "2", "3", "4", "5", "6", "7", "8", "9">>

IsDigit(c) == \E i \in 1..10 : DigitChars[i] = c

DigitVal(c) == (CHOOSE i \in 1..10 : DigitChars[i] = c) - 1

\* str(n) for a Python int n >= 0.
RECURSIVE IntToStr(_)
IntToStr(n) ==
    IF n < 10 THEN <<DigitChars[n + 1]>>
    ELSE Append(IntToStr(n \div 10), DigitChars[(n % 10) + 1])

\* The last p decimal digits of n, zero-padded on the left.
RECURSIVE FracDigits(_, _)
FracDigits(n, p) ==
    IF p = 0 THEN <<>>
    ELSE Append(FracDigits(n \div 10, p - 1), DigitChars[(n % 10) + 1])

\* s.rstrip(c)
RECURSIVE RStrip(_, _)
RStrip(s, c) ==
    IF Len(s) > 0 /\ s[Len(s)] = c THEN RStrip(SubSeq(s, 1, Len(s) - 1), c)
    ELSE s

\* The value of a digit string, most significant digit first.
RECURSIVE DigitsVal(_)
DigitsVal(s) ==
    IF Len(s) = 0 THEN 0
    ELSE 10 * DigitsVal(SubSeq(s, 1, Len(s) - 1)) + DigitVal(s[Len(s)])

\* Position of the first "." in s, 0 when there is none.
DotPos(s) ==
    IF \E i \in 1..Len(s) : s[i] = "."
    THEN CHOOSE i \in 1..Len(s) : s[i] = "." /\ \A j \in 1..(i - 1) : s[j] # "."
    ELSE 0

\* Whether float(s) accepts s: digits with at most one ".", at least one digit
\* (the unsigned decimal literals; anything else raises ValueError).
IsDecimalStr(s) ==
    /\ \E i \in 1..Len(s) : IsDigit(s[i])
    /\ \A i \in 1..Len(s) : IsDigit(s[i]) \/ (s[i] = "." /\ i = DotPos(s))

\* A decimal literal as <<n, p>>: the number n / 10^p.
StrToDecimal(s) ==
    LET dot == DotPos(s)
        ip  == IF dot = 0 THEN s ELSE SubSeq(s, 1, dot - 1)
        fp  == IF dot = 0 THEN <<>> ELSE SubSeq(s, dot + 1, Len(s))
    IN  <<DigitsVal(ip \o fp), Len(fp)>>

\* float(s) for a decimal literal s: the nearest float.
StrToFloat(s) ==
    LET d == StrToDecimal(s) IN RoundRat(d[1], 5^(d[2]), d[2])

\* f"{x:.{p}f}": the exact value of x rounded to p decimals, ties to even.
FormatFixed(x, p) ==
    LET num == x[1] * 5^p
        sh  == x[2] + p
        n   == IF sh >= 0 THEN num * 2^sh ELSE RoundHalfEven(num, 2^(0 - sh))
    IN  IF p = 0 THEN IntToStr(n)
        ELSE IntToStr(n \div 10^p) \o <<".">> \o FracDigits(n % 10^p, p)

----------------------------------------------------------------------------
(* _format_amount_for_order                                                *)

Precision8 == {"BTC", "ETH", "LTC", "BCH", "DOT", "LINK", "UNI", "AAVE", "SUSHI",
               "CRV", "YFI", "COMP", "INDEX", "CVX", "EIGEN", "KERNEL", "ETHFI"}
Precision6 == {"USDC", "USDT", "DAI", "BUSD", "TUSD", "HOPR", "OMNI", "CLANKER",
               "LOKA", "SWELL", "FIS", "PENGU", "SD", "GIGA", "HFT", "ALT", "REZ",
               "SXT"}
Precision4 == {"DOGE", "SHIB", "PEPE", "FLOKI", "BONK", "WIF", "PIRATE", "POPCAT",
               "COOKIE", "KEYCAT", "TURBO", "DEGEN", "MOG", "DOGINME", "ALEPH",
               "MOODENG", "AST", "PRCL", "PROMPT", "PNUT", "IDEX", "MDT", "SYRUP"}
Precision2 == {"STRK", "ARB", "OP", "MATIC", "AVAX", "SOL", "ATOM", "NEAR", "FTM",
               "ONE", "ALGO"}
Precision0 == {"EDGE", "ZORA", "XRP", "XLM", "ADA", "TRX", "EOS", "XTZ"}

\* precision_map.get(currency, 6)
precision_map(currency) ==
    IF currency \in Precision8 THEN 8
    ELSE IF currency \in Precision6 THEN 6
    ELSE IF currency \in Precision4 THEN 4
    ELSE IF currency \in Precision2 THEN 2
    ELSE IF currency \in Precision0 THEN 0
    ELSE 6

format_amount_for_order(currency, amount) ==
    LET precision == precision_map(currency)
    IN  IF precision = 0 THEN IntToStr(Floor(amount))
        ELSE LET multiplier     == 10^precision
                 floored_amount == IntDivPow10(Floor(FMul(amount, IntToFloat(multiplier))),
                                               precision)
                 formatted      == FormatFixed(floored_amount, precision)
             IN  IF \E i \in 1..Len(formatted) : formatted[i] = "."
                 THEN RStrip(RStrip(formatted, "0"), ".")
                 ELSE formatted

----------------------------------------------------------------------------
(* Values of the program                                                   *)

\* Python's None, where a str may stand too (strings are sequences of
\* one-character strings, so this one-element sequence is none of them).
None == <<"<None>">>

\* The literal strings of the source that the code searches or stores.
InvalidProductId ==
    <<"I", "n", "v", "a", "l", "i", "d", " ", "p", "r", "o", "d", "u", "c", "t", "_", "i", "d">>
NoUsdTradingPair ==
    <<"N", "o", " ", "U", "S", "D", " ", "t", "r", "a", "d", "i", "n", "g", " ",
      "p", "a", "i", "r", " ", "a", "v", "a", "i", "l", "a", "b", "l", "e">>

\* needle in s (Python's substring test on str)
Contains(s, needle) ==
    \E i \in 1..(Len(s) - Len(needle) + 1) : SubSeq(s, i, i + Len(needle) - 1) = needle

\* fieldnames without the error column.
fieldnames_without_error == <<"currency", "amount", "usd_value", "order_id", "status", "timestamp">>

\* The fixed schema of the report (generate_csv_report's fieldnames).
fieldnames == <<"currency", "amount", "usd_value", "order_id", "status", "timestamp", "error">>

----------------------------------------------------------------------------
VARIABLES
    pc,               \* the control point of main / run_liquidation
    live_mode,        \* args.live
    min_threshold,    \* self.min_threshold, a float
    api_key_file,     \* what is at api_key_path: "ok", "missing", "invalid_json", "no_key"
    client,           \* self.client is set
    portfolio,        \* what the brokerage answered to the portfolio requests
    balances,         \* get_portfolio_balances' result, calculate_liquidation_plan's argument
    needing,          \* currencies_needing_prices
    price_idx,        \* get_current_prices' loop index
    prices,           \* the prices dictionary, a function on the currencies it holds
    price_calls,      \* the get_product calls made, in order
    liquidation_plan, \* calculate_liquidation_plan's result
    confirmation,     \* what the user typed at the prompt, None before
    trade_idx,        \* execute_liquidation's loop index
    executed_trades,  \* the result list
    orders,           \* the create_order calls made, in order
    outcomes,         \* what each create_order call did
    clock,            \* datetime.now(), in seconds
    reports,          \* the CSV files written
    run_result,       \* run_liquidation's return value, None before
    exit_code,        \* the process's exit code, -1 before
    fmt_pc, fmt_currency, fmt_amount, fmt_result

runVars == <<pc, live_mode, min_threshold, api_key_file, client, portfolio, balances,
             needing, price_idx, prices, price_calls, liquidation_plan, confirmation,
             trade_idx, executed_trades, orders, outcomes, clock, reports, run_result,
             exit_code>>

fmtVars == <<fmt_pc, fmt_currency, fmt_amount, fmt_result>>

vars == <<runVars, fmtVars>>

\* Arguments of _format_amount_for_order that the model draws: currencies of
\* precision 0, 2, 4 and 6 (listed and unlisted), and with each every float
\* amount in [2^(-7), 2^(FmtBinades - 7)), and 0, whose size in
\* units of 10^-precision is below 2^MantBits, as the sizes of a double are
\* below 2^53: floats that big have no fractional part left at that precision.
FmtCurrencies == {"XRP", "SOL", "DOGE", "USDT", "NEWCOIN"}
FmtBinades == 10

FmtAmounts ==
    {Zero} \cup
    { <<m, e>> : m \in (2^(MantBits - 1))..(2^MantBits - 1),
                 e \in { b - 7 - (MantBits - 1) : b \in 0..(FmtBinades - 1) } }

\* amount * 10^precision(currency) < 2^MantBits
FmtInRange(currency, amount) ==
    LET sh == amount[2] + precision_map(currency)
        n  == amount[1] * 5^precision_map(currency)
    IN  IF sh >= 0 THEN FALSE
        ELSE IF MantBits - sh >= 2 * MantBits THEN TRUE
        ELSE n < 2^(MantBits - sh)

----------------------------------------------------------------------------
(* get_portfolio_balances                                                  *)

HasAttr(obj, name) == name \in DOMAIN obj

\* float(asset.<name>) returns: the attribute is there and is a decimal literal.
FloatAttrOk(asset, name) == HasAttr(asset, name) /\ IsDecimalStr(asset[name])

\* The for loop over breakdown_list from entry i on, with the balances so far.
\* raised: an exception left the loop (the handler's own asset.asset raised).
RECURSIVE process_assets(_, _, _, _)
process_assets(breakdown_list, i, threshold, acc) ==
    IF i > Len(breakdown_list) THEN [balances |-> acc, raised |-> FALSE]
    ELSE
        LET asset    == breakdown_list[i]
            parsed   == /\ HasAttr(asset, "asset")
                        /\ FloatAttrOk(asset, "total_balance_crypto")
                        /\ FloatAttrOk(asset, "total_balance_fiat")
            balance_value == StrToFloat(asset.total_balance_crypto)
            usd_value     == StrToFloat(asset.total_balance_fiat)
            selected == parsed /\ FLt(Zero, balance_value) /\ FLe(threshold, usd_value)
            throws   == ~parsed \/ (selected /\ ~HasAttr(asset, "account_uuid"))
        IN  IF throws
            THEN IF HasAttr(asset, "asset")
                 THEN process_assets(breakdown_list, i + 1, threshold, acc)
                 ELSE [balances |-> acc, raised |-> TRUE]
            ELSE IF selected
            THEN process_assets(breakdown_list, i + 1, threshold,
                     Append(acc, [account_id    |-> asset.account_uuid,
                                  currency      |-> asset.asset,
                                  balance       |-> balance_value,
                                  currency_code |-> asset.asset,
                                  usd_value     |-> usd_value]))
            ELSE process_assets(breakdown_list, i + 1, threshold, acc)

get_portfolio_balances(response, threshold) ==
    IF response.kind # "ok" THEN <<>>
    ELSE LET r == process_assets(response.spot_positions, 1, threshold, <<>>)
         IN  IF r.raised THEN <<>> ELSE r.balances

----------------------------------------------------------------------------
(* calculate_liquidation_plan                                              *)

\* to_liquidate with the balance compared to the dust threshold instead of 0.
to_liquidate_above_threshold(b) ==
    b.currency_code \notin {"USDC", "USD"} /\ FLt(min_threshold, b.balance)

\* to_liquidate with the pegged token missing from the exclusion list.
to_liquidate_keeps_usdc(b) == b.currency_code \notin {"USD"} /\ FLt(Zero, b.balance)

\* The filter of currencies_to_liquidate.
to_liquidate(b) == b.currency_code \notin {"USDC", "USD"} /\ FLt(Zero, b.balance)

currencies_to_liquidate(bals) == SelectSeq(bals, to_liquidate)

NoUsdValue(b) == ~HasAttr(b, "usd_value")

currencies_needing_prices(bals) ==
    LET l == SelectSeq(currencies_to_liquidate(bals), NoUsdValue)
    IN  [i \in 1..Len(l) |-> l[i].currency_code]

\* meets_threshold with the comparison dropped.
meets_threshold_always(usd_value, threshold) == TRUE

\* usd_value >= self.min_threshold
meets_threshold(usd_value, threshold) == FLe(threshold, usd_value)

\* The second for loop, from entry i on, with the plan so far.
RECURSIVE build_plan(_, _, _, _, _)
build_plan(ctl, i, price_of, threshold, acc) ==
    IF i > Len(ctl) THEN acc
    ELSE
        LET balance  == ctl[i]
            currency == balance.currency_code
            amount   == balance.balance
            priced   == HasAttr(balance, "usd_value") \/ currency \in DOMAIN price_of
            price_per_unit ==
                IF currency \in DOMAIN price_of THEN price_of[currency]
                ELSE FDiv(balance.usd_value, amount)
            usd_value ==
                IF HasAttr(balance, "usd_value") THEN balance.usd_value
                ELSE FMul(amount, price_per_unit)
        IN  IF priced /\ meets_threshold(usd_value, threshold)
            THEN build_plan(ctl, i + 1, price_of, threshold,
                     Append(acc, [currency       |-> currency,
                                  amount         |-> amount,
                                  price_per_unit |-> price_per_unit,
                                  usd_value      |-> usd_value,
                                  account_id     |-> balance.account_id]))
            ELSE build_plan(ctl, i + 1, price_of, threshold, acc)

----------------------------------------------------------------------------
(* execute_liquidation, generate_csv_report                                *)

\* f"{currency}-USD"
product_id(currency) == <<currency, "-USD">>

\* f"liquidation_{currency}_{int(datetime.now().timestamp())}"
client_order_id(currency, now) == <<"liquidation_", currency, "_">> \o IntToStr(now)

\* The order id read from create_order's response.
response_order_id(order, client_id) ==
    IF HasAttr(order, "order_id") THEN order.order_id
    ELSE IF HasAttr(order, "id") THEN order.id
    ELSE client_id

\* classify_error without the classification.
classify_error_verbatim(error_msg) == error_msg

\* The error recorded for an exception whose str() is error_msg.
classify_error(error_msg) ==
    IF Contains(error_msg, InvalidProductId) THEN NoUsdTradingPair ELSE error_msg

executed_result(trade, order_id, now) ==
    [currency  |-> trade.currency,
     amount    |-> trade.amount,
     usd_value |-> trade.usd_value,
     order_id  |-> order_id,
     status    |-> "EXECUTED",
     timestamp |-> IntToStr(now)]

failed_result(trade, error_msg, now) ==
    [currency  |-> trade.currency,
     amount    |-> trade.amount,
     usd_value |-> trade.usd_value,
     order_id  |-> None,
     status    |-> "FAILED",
     error     |-> classify_error(error_msg),
     timestamp |-> IntToStr(now)]

trial_result(trade, now) ==
    [currency  |-> trade.currency,
     amount    |-> trade.amount,
     usd_value |-> trade.usd_value,
     order_id  |-> <<"TRIAL_MODE">>,
     status    |-> "TRIAL",
     timestamp |-> IntToStr(now)]

\* The trade dictionary after the report's loop over fieldnames.
fill_missing(trade) ==
    [f \in {fieldnames[k] : k \in 1..Len(fieldnames)} |->
        IF f \in DOMAIN trade THEN trade[f] ELSE None]

\* A row as csv.DictWriter writes it: None as the empty string.
csv_row(trade) ==
    [f \in DOMAIN trade |->
        IF f \in {"order_id", "error"} /\ trade[f] = None THEN <<>> ELSE trade[f]]

report_mode(trades) ==
    IF \E i \in 1..Len(trades) : trades[i].status = "TRIAL" THEN "trial" ELSE "live"

\* cancelled with a comparison that ignores case.
cancelled_ignoring_case(typed) == typed \notin {"CONFIRM", "confirm"}

\* confirmation != 'CONFIRM'
cancelled(typed) == typed # "CONFIRM"

----------------------------------------------------------------------------
(* Inputs: the command line, the credential file, the brokerage's answers  *)
(* and the user's typing.                                                  *)

\* Positions in a portfolio breakdown, holdings in a balance list (at most).
MaxPositions == 2
MaxHoldings == 3

\* --min-threshold
ThresholdArgs == { <<"0", ".", "0", "1">>, <<"0", ".", "1">> }

ApiKeyFiles == {"ok", "missing", "invalid_json", "no_key"}

AccountUuids == <<"uuid-1", "uuid-2", "uuid-3", "uuid-4", "uuid-5">>

\* The spot positions the brokerage may list: well-formed ones (a holding
\* above every threshold, one between the thresholds, an unlisted asset, cash
\* and its pegged token, an empty balance) and malformed ones (a balance that
\* is no number, a position without its asset attribute).
PositionKinds ==
    << [asset |-> "SOL", total_balance_crypto |-> <<"6", ".", "2", "2", "9", "9">>,
        total_balance_fiat |-> <<"6", "5", "0">>],
       [asset |-> "DOGE", total_balance_crypto |-> <<"1", ".", "2", "5">>,
        total_balance_fiat |-> <<"0", ".", "0", "8">>],
       [asset |-> "NEWCOIN", total_balance_crypto |-> <<"0", ".", "0", "0", "8", "2">>,
        total_balance_fiat |-> <<"3">>],
       [asset |-> "USDC", total_balance_crypto |-> <<"5", "0", "0">>,
        total_balance_fiat |-> <<"5", "0", "0">>],
       [asset |-> "USD", total_balance_crypto |-> <<"2", "5">>,
        total_balance_fiat |-> <<"2", "5">>],
       [asset |-> "XRP", total_balance_crypto |-> <<"0">>,
        total_balance_fiat |-> <<"0">>],
       [asset |-> "SOL", total_balance_crypto |-> <<>>,
        total_balance_fiat |-> <<"6", "5", "0">>],
       [total_balance_crypto |-> <<"2">>, total_balance_fiat |-> <<"7">>] >>

\* Every list of at most MaxPositions positions, each with its own account.
PositionLists ==
    UNION { { [i \in 1..n |-> [account_uuid |-> AccountUuids[i]] @@ PositionKinds[k[i]]] :
                k \in [1..n -> 1..Len(PositionKinds)] } : n \in 0..MaxPositions }

\* What get_portfolios and get_portfolio_breakdown may answer.
PortfolioResponses ==
    { [kind |-> "portfolios_error"], [kind |-> "no_portfolios"],
      [kind |-> "breakdown_error"] }
    \cup { [kind |-> "ok", spot_positions |-> l] : l \in PositionLists }

\* What the user may type at the prompt.
Typed == {"CONFIRM", "confirm", "yes", ""}

\* What create_order may return, and the messages of what it may raise.
OrderResponses ==
    { [order_id |-> <<"srv-order">>], [id |-> <<"srv-id">>], [success |-> <<"true">>] }

SubmitErrors ==
    { <<"4", "0", "0", " ">> \o InvalidProductId \o <<"!">>,
      <<"I", "n", "v", "a", "l", "i", "d", " ", "p", "r", "o", "d", "u", "c", "t">>,
      <<"I", "N", "S", "U", "F", "F", "I", "C", "I", "E", "N", "T", "_", "F", "U", "N", "D">> }

\* Seconds that may pass before an order is handled.
Ticks == {0, 1}

----------------------------------------------------------------------------
(* main and run_liquidation                                                *)

NotAsked == "<not asked>"

RunInit ==
    /\ pc = "load_credentials"
    /\ live_mode \in BOOLEAN
    /\ min_threshold \in { StrToFloat(a) : a \in ThresholdArgs }
    /\ api_key_file \in ApiKeyFiles
    /\ client = FALSE
    /\ portfolio = [kind |-> "not_asked"]
    /\ balances = <<>>
    /\ needing = <<>>
    /\ price_idx = 1
    /\ prices = <<>>
    /\ price_calls = <<>>
    /\ liquidation_plan = <<>>
    /\ confirmation = NotAsked
    /\ trade_idx = 1
    /\ executed_trades = <<>>
    /\ orders = <<>>
    /\ outcomes = <<>>
    /\ clock = 0
    /\ reports = <<>>
    /\ run_result = "None"
    /\ exit_code = 0 - 1

FmtIdle ==
    /\ fmt_pc = "idle"
    /\ fmt_currency = "XRP"
    /\ fmt_amount = Zero
    /\ fmt_result = <<>>

Init == RunInit /\ FmtIdle

\* load_api_credentials, and run_liquidation's return when it fails.
LoadCredentials ==
    /\ pc = "load_credentials"
    /\ IF api_key_file = "ok"
       THEN client' = TRUE /\ pc' = "balances" /\ UNCHANGED run_result
       ELSE run_result' = "False" /\ pc' = "exit" /\ UNCHANGED client
    /\ UNCHANGED <<live_mode, min_threshold, api_key_file, portfolio, balances, needing,
                   price_idx, prices, price_calls, liquidation_plan, confirmation,
                   trade_idx, executed_trades, orders, outcomes, clock, reports,
                   exit_code, fmtVars>>

\* get_portfolio_balances, and run_liquidation's return when nothing is held.
GetPortfolioBalances ==
    /\ pc = "balances"
    /\ \E response \in PortfolioResponses :
          /\ portfolio' = response
          /\ balances' = get_portfolio_balances(response, min_threshold)
    /\ IF balances' = <<>>
       THEN run_result' = "True" /\ pc' = "exit"
       ELSE pc' = "plan" /\ UNCHANGED run_result
    /\ UNCHANGED <<live_mode, min_threshold, api_key_file, client, needing,
                   price_idx, prices, price_calls, liquidation_plan, confirmation,
                   trade_idx, executed_trades, orders, outcomes, clock, reports,
                   exit_code, fmtVars>>

\* calculate_liquidation_plan up to the price lookup.
PlanFilter ==
    /\ pc = "plan"
    /\ needing' = currencies_needing_prices(balances)
    /\ price_idx' = 1
    /\ pc' = IF needing' = <<>> THEN "build" ELSE "prices"
    /\ UNCHANGED <<live_mode, min_threshold, api_key_file, client, portfolio, balances,
                   prices, price_calls, liquidation_plan, confirmation,
                   trade_idx, executed_trades, orders, outcomes, clock, reports,
                   run_result, exit_code, fmtVars>>

\* calculate_liquidation_plan from the price lookup on.
PlanBuild ==
    /\ pc = "build"
    /\ liquidation_plan' =
          build_plan(currencies_to_liquidate(balances), 1, prices, min_threshold, <<>>)
    /\ pc' = "planned"
    /\ UNCHANGED <<live_mode, min_threshold, api_key_file, client, portfolio, balances,
                   needing, price_idx, prices, price_calls, confirmation,
                   trade_idx, executed_trades, orders, outcomes, clock, reports,
                   run_result, exit_code, fmtVars>>

\* run_liquidation from the plan to the prompt: the return on an empty plan,
\* the plan's display, the branch on live_mode.
DisplayPlan ==
    /\ pc = "planned"
    /\ IF liquidation_plan = <<>>
       THEN run_result' = "True" /\ pc' = "exit"
       ELSE /\ pc' = IF live_mode THEN "confirm" ELSE "execute"
            /\ UNCHANGED run_result
    /\ UNCHANGED <<live_mode, min_threshold, api_key_file, client, portfolio, balances,
                   needing, price_idx, prices, price_calls, liquidation_plan,
                   confirmation, trade_idx, executed_trades, orders, outcomes, clock,
                   reports, exit_code, fmtVars>>

\* The confirmation prompt of live mode.
Confirm ==
    /\ pc = "confirm"
    /\ \E typed \in Typed :
          /\ confirmation' = typed
          /\ IF cancelled(typed)
             THEN run_result' = "False" /\ pc' = "exit"
             ELSE pc' = "execute" /\ UNCHANGED run_result
    /\ UNCHANGED <<live_mode, min_threshold, api_key_file, client, portfolio, balances,
                   needing, price_idx, prices, price_calls, liquidation_plan,
                   trade_idx, executed_trades, orders, outcomes, clock, reports,
                   exit_code, fmtVars>>

\* Where execute_liquidation's loop goes after the trade at trade_idx.
AfterTrade ==
    /\ trade_idx' = trade_idx + 1
    /\ pc' = IF trade_idx + 1 > Len(liquidation_plan) THEN "report" ELSE "execute"

\* The create_order call of the trade at trade_idx, made at time now.
OrderCall(trade, now) ==
    [product_id      |-> product_id(trade.currency),
     side            |-> "SELL",
     client_order_id |-> client_order_id(trade.currency, now),
     base_size       |-> format_amount_for_order(trade.currency, trade.amount)]

\* One pass of execute_liquidation's loop, live mode, create_order returns.
SubmitOrderReturns ==
    /\ pc = "execute" /\ live_mode
    /\ \E dt \in Ticks, order \in OrderResponses :
          LET trade == liquidation_plan[trade_idx]
              now   == clock + dt
          IN  /\ clock' = now
              /\ orders' = Append(orders, OrderCall(trade, now))
              /\ outcomes' = Append(outcomes, [kind |-> "returned", response |-> order])
              /\ executed_trades' =
                    Append(executed_trades,
                           executed_result(trade,
                               response_order_id(order, client_order_id(trade.currency, now)),
                               now))
    /\ AfterTrade
    /\ UNCHANGED <<live_mode, min_threshold, api_key_file, client, portfolio, balances,
                   needing, price_idx, prices, price_calls, liquidation_plan,
                   confirmation, reports, run_result, exit_code, fmtVars>>

\* SubmitOrderRaises with the exception ending the loop.
SubmitOrderRaisesAborts ==
    /\ pc = "execute" /\ live_mode
    /\ \E dt \in Ticks, error_msg \in SubmitErrors :
          LET trade == liquidation_plan[trade_idx]
              now   == clock + dt
          IN  /\ clock' = now
              /\ orders' = Append(orders, OrderCall(trade, now))
              /\ outcomes' = Append(outcomes, [kind |-> "raised", message |-> error_msg])
              /\ executed_trades' =
                    Append(executed_trades, failed_result(trade, error_msg, now))
    /\ trade_idx' = trade_idx + 1
    /\ pc' = "report"
    /\ UNCHANGED <<live_mode, min_threshold, api_key_file, client, portfolio, balances,
                   needing, price_idx, prices, price_calls, liquidation_plan,
                   confirmation, reports, run_result, exit_code, fmtVars>>

\* SubmitOrderRaises with the order submitted again after the exception.
SubmitOrderRaisesResubmits ==
    /\ pc = "execute" /\ live_mode
    /\ \E dt \in Ticks, error_msg \in SubmitErrors :
          LET trade == liquidation_plan[trade_idx]
              now   == clock + dt
          IN  /\ clock' = now
              /\ orders' = orders \o <<OrderCall(trade, now), OrderCall(trade, now)>>
              /\ outcomes' = Append(outcomes, [kind |-> "raised", message |-> error_msg])
              /\ executed_trades' =
                    Append(executed_trades, failed_result(trade, error_msg, now))
    /\ AfterTrade
    /\ UNCHANGED <<live_mode, min_threshold, api_key_file, client, portfolio, balances,
                   needing, price_idx, prices, price_calls, liquidation_plan,
                   confirmation, reports, run_result, exit_code, fmtVars>>

\* One pass of execute_liquidation's loop, live mode, create_order raises.
SubmitOrderRaises ==
    /\ pc = "execute" /\ live_mode
    /\ \E dt \in Ticks, error_msg \in SubmitErrors :
          LET trade == liquidation_plan[trade_idx]
              now   == clock + dt
          IN  /\ clock' = now
              /\ orders' = Append(orders, OrderCall(trade, now))
              /\ outcomes' = Append(outcomes, [kind |-> "raised", message |-> error_msg])
              /\ executed_trades' =
                    Append(executed_trades, failed_result(trade, error_msg, now))
    /\ AfterTrade
    /\ UNCHANGED <<live_mode, min_threshold, api_key_file, client, portfolio, balances,
                   needing, price_idx, prices, price_calls, liquidation_plan,
                   confirmation, reports, run_result, exit_code, fmtVars>>

\* SimulateTrade with the order submitted all the same.
SimulateTradeSubmits ==
    /\ pc = "execute" /\ ~live_mode
    /\ \E dt \in Ticks :
          LET trade == liquidation_plan[trade_idx]
              now   == clock + dt
          IN  /\ clock' = now
              /\ orders' = Append(orders, OrderCall(trade, now))
              /\ executed_trades' = Append(executed_trades, trial_result(trade, now))
    /\ AfterTrade
    /\ UNCHANGED <<live_mode, min_threshold, api_key_file, client, portfolio, balances,
                   needing, price_idx, prices, price_calls, liquidation_plan,
                   confirmation, outcomes, reports, run_result, exit_code, fmtVars>>

\* One pass of execute_liquidation's loop, trial mode.
SimulateTrade ==
    /\ pc = "execute" /\ ~live_mode
    /\ \E dt \in Ticks :
          LET trade == liquidation_plan[trade_idx]
              now   == clock + dt
          IN  /\ clock' = now
              /\ executed_trades' = Append(executed_trades, trial_result(trade, now))
    /\ AfterTrade
    /\ UNCHANGED <<live_mode, min_threshold, api_key_file, client, portfolio, balances,
                   needing, price_idx, prices, price_calls, liquidation_plan,
                   confirmation, orders, outcomes, reports, run_result, exit_code,
                   fmtVars>>

\* GenerateCsvReport with the file never written.
GenerateCsvReportWritesNothing ==
    /\ pc = "report"
    /\ \E dt \in Ticks : clock' = clock + dt
    /\ executed_trades' =
          [i \in 1..Len(executed_trades) |-> fill_missing(executed_trades[i])]
    /\ pc' = "summary"
    /\ UNCHANGED <<live_mode, min_threshold, api_key_file, client, portfolio, balances,
                   needing, price_idx, prices, price_calls, liquidation_plan,
                   confirmation, trade_idx, orders, outcomes, reports, run_result,
                   exit_code, fmtVars>>

\* generate_csv_report: the file, and the fields it adds to the trades.
GenerateCsvReport ==
    /\ pc = "report"
    /\ \E dt \in Ticks :
          /\ clock' = clock + dt
          /\ reports' = Append(reports,
                [filename |-> <<"coinbase_liquidation_report_", report_mode(executed_trades),
                                "_">> \o IntToStr(clock + dt) \o <<".csv">>,
                 header   |-> IF executed_trades = <<>> THEN <<>> ELSE fieldnames,
                 rows     |-> [i \in 1..Len(executed_trades) |->
                                  csv_row(fill_missing(executed_trades[i]))]])
    /\ executed_trades' =
          [i \in 1..Len(executed_trades) |-> fill_missing(executed_trades[i])]
    /\ pc' = "summary"
    /\ UNCHANGED <<live_mode, min_threshold, api_key_file, client, portfolio, balances,
                   needing, price_idx, prices, price_calls, liquidation_plan,
                   confirmation, trade_idx, orders, outcomes, run_result, exit_code,
                   fmtVars>>

\* run_liquidation's summary and its return.
Summary ==
    /\ pc = "summary"
    /\ run_result' = "True"
    /\ pc' = "exit"
    /\ UNCHANGED <<live_mode, min_threshold, api_key_file, client, portfolio, balances,
                   needing, price_idx, prices, price_calls, liquidation_plan,
                   confirmation, trade_idx, executed_trades, orders, outcomes, clock,
                   reports, exit_code, fmtVars>>

\* MainExit with the exit code 0 whatever run_liquidation returned.
MainExitAlwaysZero ==
    /\ pc = "exit"
    /\ exit_code' = 0
    /\ pc' = "done"
    /\ UNCHANGED <<live_mode, min_threshold, api_key_file, client, portfolio, balances,
                   needing, price_idx, prices, price_calls, liquidation_plan,
                   confirmation, trade_idx, executed_trades, orders, outcomes, clock,
                   reports, run_result, fmtVars>>

\* main after run_liquidation returns: the message and the exit code.
MainExit ==
    /\ pc = "exit"
    /\ exit_code' = IF run_result = "True" THEN 0 ELSE 1
    /\ pc' = "done"
    /\ UNCHANGED <<live_mode, min_threshold, api_key_file, client, portfolio, balances,
                   needing, price_idx, prices, price_calls, liquidation_plan,
                   confirmation, trade_idx, executed_trades, orders, outcomes, clock,
                   reports, run_result, fmtVars>>

Next ==
    \/ LoadCredentials
    \/ GetPortfolioBalances
    \/ PlanFilter
    \/ PlanBuild
    \/ DisplayPlan
    \/ Confirm
    \/ SubmitOrderReturns
    \/ SubmitOrderRaises
    \/ SimulateTrade
    \/ GenerateCsvReport
    \/ Summary
    \/ MainExit

Spec == Init /\ [][Next]_vars

----------------------------------------------------------------------------
(* get_current_prices, one get_product call per step                       *)

\* product_response.price of a call that returns a price.
PriceStrings == { <<"2", "5", "0", "0">>, <<"0", ".", "0", "0", "0", "0", "5">> }

\* Ways a get_product call fails: an HTTPError that is no rate limit, an
\* exception that is no HTTPError, a response whose price float() rejects.
LookupFailures == {"http_500", "connection_error", "bad_price"}

\* Ways the retry fails: any exception, a second rate limit among them.
RetryFailures == LookupFailures \cup {"http_429"}

SetPrice(price_of, currency, price) ==
    [c \in (DOMAIN price_of) \cup {currency} |->
        IF c = currency THEN price ELSE price_of[c]]

\* A get_product call as the model records it: the product asked for, whether
\* it is the first lookup or the retry, and how it was answered ("price", or
\* the failure).
ProductCall(currency, attempt, answer) ==
    [product_id |-> product_id(currency), attempt |-> attempt, answer |-> answer]

\* Where get_current_prices' loop goes after the currency at price_idx.
AfterPrice ==
    /\ price_idx' = price_idx + 1
    /\ pc' = IF price_idx + 1 > Len(needing) THEN "build" ELSE "prices"

priceFrame == <<live_mode, min_threshold, api_key_file, client, portfolio, balances,
                needing, liquidation_plan, confirmation, trade_idx, executed_trades,
                orders, outcomes, clock, reports, run_result, exit_code, fmtVars>>

\* The first lookup of a currency returns a price.
GetPriceOk ==
    /\ pc = "prices"
    /\ \E price \in PriceStrings :
          prices' = SetPrice(prices, needing[price_idx], StrToFloat(price))
    /\ price_calls' = Append(price_calls, ProductCall(needing[price_idx], "first", "price"))
    /\ AfterPrice
    /\ UNCHANGED priceFrame

\* GetPriceFails with a retry after any failure, rate limit or not.
GetPriceFailsRetries ==
    /\ pc = "prices"
    /\ \E failure \in LookupFailures :
          price_calls' = Append(price_calls, ProductCall(needing[price_idx], "first", failure))
    /\ pc' = "price_retry"
    /\ UNCHANGED <<prices, price_idx, priceFrame>>

\* The first lookup fails with something that is no rate limit: no retry.
GetPriceFails ==
    /\ pc = "prices"
    /\ \E failure \in LookupFailures :
          price_calls' = Append(price_calls, ProductCall(needing[price_idx], "first", failure))
    /\ AfterPrice
    /\ UNCHANGED <<prices, priceFrame>>

\* The first lookup is rate limited (HTTP 429): wait, then retry.
GetPriceRateLimited ==
    /\ pc = "prices"
    /\ price_calls' = Append(price_calls, ProductCall(needing[price_idx], "first", "http_429"))
    /\ pc' = "price_retry"
    /\ UNCHANGED <<prices, price_idx, priceFrame>>

\* The retry returns a price.
RetryPriceOk ==
    /\ pc = "price_retry"
    /\ \E price \in PriceStrings :
          prices' = SetPrice(prices, needing[price_idx], StrToFloat(price))
    /\ price_calls' = Append(price_calls, ProductCall(needing[price_idx], "retry", "price"))
    /\ AfterPrice
    /\ UNCHANGED priceFrame

\* The retry fails: the currency is given up.
RetryPriceFails ==
    /\ pc = "price_retry"
    /\ \E failure \in RetryFailures :
          price_calls' = Append(price_calls, ProductCall(needing[price_idx], "retry", failure))
    /\ AfterPrice
    /\ UNCHANGED <<prices, priceFrame>>

----------------------------------------------------------------------------
(* calculate_liquidation_plan called on any list of balances, those of     *)
(* get_account_balances (no usd_value) among them.                         *)

HoldingKinds ==
    << [currency |-> "BTC", currency_code |-> "BTC",
        balance |-> StrToFloat(<<"0", ".", "0", "1">>),
        usd_value |-> StrToFloat(<<"6", "5", "0">>)],
       [currency |-> "USDC", currency_code |-> "USDC",
        balance |-> StrToFloat(<<"5", "0", "0">>),
        usd_value |-> StrToFloat(<<"5", "0", "0">>)],
       [currency |-> "DOGE", currency_code |-> "DOGE",
        balance |-> StrToFloat(<<"1", "0", "0", "0">>),
        usd_value |-> StrToFloat(<<"0", ".", "0", "8">>)],
       [currency |-> "ETH", currency_code |-> "ETH", balance |-> StrToFloat(<<"2">>)],
       [currency |-> "USD", currency_code |-> "USD", balance |-> StrToFloat(<<"1", "0">>)],
       [currency |-> "SOL", currency_code |-> "SOL", balance |-> Zero] >>

\* Every list of at most MaxHoldings holdings, each with its own account.
HoldingLists ==
    UNION { { [i \in 1..n |-> [account_id |-> AccountUuids[i]] @@ HoldingKinds[k[i]]] :
                k \in [1..n -> 1..Len(HoldingKinds)] } : n \in 0..MaxHoldings }

PlanInit ==
    /\ pc = "plan"
    /\ live_mode = FALSE
    /\ min_threshold \in { StrToFloat(a) : a \in ThresholdArgs }
    /\ api_key_file = "ok"
    /\ client = TRUE
    /\ portfolio = [kind |-> "not_asked"]
    /\ balances \in HoldingLists
    /\ needing = <<>>
    /\ price_idx = 1
    /\ prices = <<>>
    /\ price_calls = <<>>
    /\ liquidation_plan = <<>>
    /\ confirmation = NotAsked
    /\ trade_idx = 1
    /\ executed_trades = <<>>
    /\ orders = <<>>
    /\ outcomes = <<>>
    /\ clock = 0
    /\ reports = <<>>
    /\ run_result = "None"
    /\ exit_code = 0 - 1
    /\ FmtIdle

PlanNext ==
    \/ PlanFilter
    \/ GetPriceOk
    \/ GetPriceFails
    \/ GetPriceRateLimited
    \/ RetryPriceOk
    \/ RetryPriceFails
    \/ PlanBuild

PlanSpec == PlanInit /\ [][PlanNext]_vars

----------------------------------------------------------------------------
(* _format_amount_for_order called on its own                              *)

RunIdle ==
    /\ pc = "idle"
    /\ live_mode = FALSE
    /\ min_threshold = Zero
    /\ api_key_file = "ok"
    /\ client = FALSE
    /\ portfolio = [kind |-> "not_asked"]
    /\ balances = <<>>
    /\ needing = <<>>
    /\ price_idx = 1
    /\ prices = <<>>
    /\ price_calls = <<>>
    /\ liquidation_plan = <<>>
    /\ confirmation = NotAsked
    /\ trade_idx = 1
    /\ executed_trades = <<>>
    /\ orders = <<>>
    /\ outcomes = <<>>
    /\ clock = 0
    /\ reports = <<>>
    /\ run_result = "None"
    /\ exit_code = 0 - 1

FmtInit ==
    /\ RunIdle
    /\ fmt_pc = "call"
    /\ fmt_currency \in FmtCurrencies
    /\ fmt_amount \in FmtAmounts
    /\ FmtInRange(fmt_currency, fmt_amount)
    /\ fmt_result = <<>>

FormatAmount ==
    /\ fmt_pc = "call"
    /\ fmt_result' = format_amount_for_order(fmt_currency, fmt_amount)
    /\ fmt_pc' = "returned"
    /\ UNCHANGED <<fmt_currency, fmt_amount, runVars>>

FormatSpec == FmtInit /\ [][FormatAmount]_vars

----------------------------------------------------------------------------
(* The claims                                                              *)

CashEquivalent == {"USD", "USDC"}

\* The user was asked and typed something other than the confirmation token.
Declined == confirmation # NotAsked /\ confirmation # "CONFIRM"

\* run_liquidation went through execute_liquidation.
Executed == pc \in {"report", "summary"} \/ (pc \in {"exit", "done"} /\ reports # <<>>)

\* A holding the plan must take: not cash, a positive quantity, a value at or
\* above the threshold.
Liquidatable(h) ==
    /\ h.currency_code \notin CashEquivalent
    /\ FLt(Zero, h.balance)
    /\ FLe(min_threshold, h.usd_value)

\* The plan's entries for holding h, the results for those entries.
OrdersFor(h) ==
    { i \in DOMAIN liquidation_plan :
        /\ liquidation_plan[i].account_id = h.account_id
        /\ liquidation_plan[i].currency = h.currency
        /\ liquidation_plan[i].amount = h.balance
        /\ liquidation_plan[i].usd_value = h.usd_value }

ResultsFor(h) ==
    { i \in DOMAIN executed_trades :
        /\ i \in OrdersFor(h)
        /\ executed_trades[i].currency = h.currency
        /\ executed_trades[i].amount = h.balance
        /\ executed_trades[i].usd_value = h.usd_value }

\* C1 as stated: when any run has ended, every liquidatable holding the
\* balance reader returned has exactly one order in the plan and exactly one
\* result in the result list.
C1_EveryRun ==
    pc = "done" =>
        \A k \in DOMAIN balances :
            Liquidatable(balances[k]) =>
                /\ Cardinality(OrdersFor(balances[k])) = 1
                /\ Cardinality(ResultsFor(balances[k])) = 1

\* C1 as amended: when a run has ended, every liquidatable holding the balance
\* reader returned has exactly one order in the plan, and exactly one result
\* unless the user declined the live-mode confirmation, in which case the
\* result list is empty.
C1_OneOrderOneResult ==
    pc = "done" =>
        \A k \in DOMAIN balances :
            Liquidatable(balances[k]) =>
                /\ Cardinality(OrdersFor(balances[k])) = 1
                /\ IF Declined THEN executed_trades = <<>>
                   ELSE Cardinality(ResultsFor(balances[k])) = 1

C1_Witness ==
    /\ pc = "done"
    /\ live_mode
    /\ Len(balances) = 2
    /\ Liquidatable(balances[1])
    /\ ~Liquidatable(balances[2])
    /\ Cardinality(ResultsFor(balances[1])) = 1

\* C2: no entry of the plan, no order submitted and no execution result is
\* ever for USD or USDC.
C2_NoCashEquivalent ==
    /\ \A i \in DOMAIN liquidation_plan : liquidation_plan[i].currency \notin CashEquivalent
    /\ \A i \in DOMAIN orders : orders[i].product_id[1] \notin CashEquivalent
    /\ \A i \in DOMAIN executed_trades : executed_trades[i].currency \notin CashEquivalent

C2_Witness ==
    /\ pc = "done"
    /\ \E k \in DOMAIN balances : balances[k].currency_code = "USDC"
    /\ \E k \in DOMAIN balances : balances[k].currency_code # "USDC"
    /\ orders # <<>>
    /\ executed_trades # <<>>

\* The valuation calculate_liquidation_plan gives holding h: the precomputed
\* one, else quantity times the looked-up price.
HasValuation(h) == HasAttr(h, "usd_value") \/ h.currency_code \in DOMAIN prices

Valuation(h) ==
    IF HasAttr(h, "usd_value") THEN h.usd_value
    ELSE FMul(h.balance, prices[h.currency_code])

PlanCurrencies == [i \in DOMAIN liquidation_plan |-> liquidation_plan[i].currency]

\* The holdings [BTC $650, USDC $500, DOGE $0.08] of the spec's scenario.
ScenarioHoldings ==
    /\ Len(balances) = 3
    /\ balances[1].currency_code = "BTC" /\ balances[1].usd_value = StrToFloat(<<"6", "5", "0">>)
    /\ balances[2].currency_code = "USDC"
    /\ balances[3].currency_code = "DOGE"
    /\ balances[3].usd_value = StrToFloat(<<"0", ".", "0", "8">>)

\* C3: every order of the plan is valued at or above the threshold; when
\* calculate_liquidation_plan has returned, a holding valued below the
\* threshold, precomputed or derived, has no order; and the holdings
\* [BTC $650, USDC $500, DOGE $0.08] with threshold $0.10 give the plan [BTC].
C3_PlanMeetsThreshold ==
    /\ \A i \in DOMAIN liquidation_plan :
          FLe(min_threshold, liquidation_plan[i].usd_value)
    /\ pc = "planned" =>
          \A k \in DOMAIN balances :
              (HasValuation(balances[k]) /\ FLt(Valuation(balances[k]), min_threshold)) =>
                  \A i \in DOMAIN liquidation_plan :
                      liquidation_plan[i].account_id # balances[k].account_id
    /\ (pc = "planned" /\ ScenarioHoldings /\ min_threshold = StrToFloat(<<"0", ".", "1">>)) =>
          PlanCurrencies = <<"BTC">>

C3_Witness ==
    /\ pc = "planned"
    /\ \E k \in DOMAIN balances :
          /\ ~HasAttr(balances[k], "usd_value")
          /\ \E i \in DOMAIN liquidation_plan :
                liquidation_plan[i].account_id = balances[k].account_id
    /\ \E k \in DOMAIN balances :
          /\ HasAttr(balances[k], "usd_value")
          /\ FLt(Zero, balances[k].usd_value)
          /\ FLt(balances[k].usd_value, min_threshold)

\* C4: in live mode an order is submitted only after the user typed CONFIRM,
\* and once anything else was typed the run is over with no order submitted.
C4_ConfirmBeforeOrders ==
    live_mode =>
        /\ orders # <<>> => confirmation = "CONFIRM"
        /\ Declined => (orders = <<>> /\ pc \in {"exit", "done"})

C4_Witness ==
    /\ live_mode
    /\ confirmation = "CONFIRM"
    /\ Len(orders) = 2

\* C5 as stated: in trial mode every result has status SIMULATED and no order
\* is submitted.
C5_StatusSimulated ==
    ~live_mode =>
        /\ orders = <<>>
        /\ \A i \in DOMAIN executed_trades : executed_trades[i].status = "SIMULATED"

\* C5 as amended: in trial mode no order is submitted, every result has the
\* status TRIAL (and the order id TRIAL_MODE), and once execute_liquidation has
\* returned there is one result per order of the plan, in the plan's order.
C5_StatusTrial ==
    ~live_mode =>
        /\ orders = <<>>
        /\ \A i \in DOMAIN executed_trades :
              /\ executed_trades[i].status = "TRIAL"
              /\ executed_trades[i].order_id = <<"TRIAL_MODE">>
              /\ executed_trades[i].currency = liquidation_plan[i].currency
        /\ Executed => Len(executed_trades) = Len(liquidation_plan)

C5_Witness ==
    /\ ~live_mode
    /\ pc = "done"
    /\ Len(liquidation_plan) = 2
    /\ Len(executed_trades) = 2

\* C6: in live mode the i-th result is for the i-th entry of the plan, every
\* entry handled so far was submitted, and once execute_liquidation has
\* returned the result list is as long as the plan, whatever was raised.
C6_WholePlanProcessed ==
    live_mode =>
        /\ Len(executed_trades) <= Len(liquidation_plan)
        /\ Len(orders) = Len(executed_trades)
        /\ \A i \in DOMAIN executed_trades :
              /\ executed_trades[i].currency = liquidation_plan[i].currency
              /\ executed_trades[i].amount = liquidation_plan[i].amount
              /\ executed_trades[i].usd_value = liquidation_plan[i].usd_value
              /\ orders[i].product_id = product_id(liquidation_plan[i].currency)
        /\ Executed => Len(executed_trades) = Len(liquidation_plan)

C6_Witness ==
    /\ live_mode
    /\ pc = "done"
    /\ Len(liquidation_plan) = 2
    /\ Len(outcomes) = 2
    /\ outcomes[1].kind = "raised"
    /\ outcomes[2].kind = "returned"
    /\ executed_trades[2].status = "EXECUTED"

\* C7: in live mode the result of an order whose submission raised is FAILED
\* with no order id, and its error is "No USD trading pair available" when
\* the message contains "Invalid product_id", else the message itself.
C7_ErrorClassified ==
    live_mode =>
        \A i \in DOMAIN executed_trades :
            outcomes[i].kind = "raised" =>
                /\ executed_trades[i].status = "FAILED"
                /\ executed_trades[i].order_id = None
                /\ Contains(outcomes[i].message, InvalidProductId) =>
                      executed_trades[i].error = NoUsdTradingPair
                /\ ~Contains(outcomes[i].message, InvalidProductId) =>
                      executed_trades[i].error = outcomes[i].message

C7_Witness ==
    /\ live_mode
    /\ Len(executed_trades) = 2
    /\ executed_trades[1].status = "FAILED"
    /\ executed_trades[1].error = NoUsdTradingPair
    /\ executed_trades[2].status = "FAILED"
    /\ executed_trades[2].error # NoUsdTradingPair
    /\ executed_trades[2].error = outcomes[2].message

\* The number of decimal places of a decimal literal.
Decimals(s) == IF DotPos(s) = 0 THEN 0 ELSE Len(s) - DotPos(s)

\* C8: the order size _format_amount_for_order returns, read as a number, is
\* at most the quantity it was given, and has at most as many decimal places
\* as the precision of the currency.
C8_NeverRoundsUp ==
    fmt_pc = "returned" =>
        /\ IsDecimalStr(fmt_result)
        /\ Decimals(fmt_result) <= precision_map(fmt_currency)
        /\ FLe(StrToFloat(fmt_result), fmt_amount)

\* A position whose attributes all read and parse.
WellFormed(p) ==
    /\ HasAttr(p, "asset") /\ HasAttr(p, "account_uuid")
    /\ FloatAttrOk(p, "total_balance_crypto")
    /\ FloatAttrOk(p, "total_balance_fiat")

\* C9: once the portfolio breakdown was read, every well-formed position with
\* a positive quantity and a value at or above the threshold is among the
\* balances, whatever other positions are malformed; and no asset's failed
\* order keeps a later asset from being processed.
C9_AssetErrorsNeverAbort ==
    (portfolio.kind = "ok" /\ pc # "balances") =>
        /\ \A k \in DOMAIN portfolio.spot_positions :
              LET p == portfolio.spot_positions[k]
              IN  ( /\ WellFormed(p)
                    /\ FLt(Zero, StrToFloat(p.total_balance_crypto))
                    /\ FLe(min_threshold, StrToFloat(p.total_balance_fiat)) ) =>
                      \E j \in DOMAIN balances : balances[j].account_id = p.account_uuid
        /\ Executed => Len(executed_trades) = Len(liquidation_plan)

\* C10: a run the user declined at the live-mode prompt ends as a success:
\* run_liquidation returns True and the exit code is 0.
C10_CancelIsNotAnError ==
    (pc = "done" /\ live_mode /\ Declined) => (run_result = "True" /\ exit_code = 0)

\* Startup failed: load_api_credentials could not build the client.
StartupFailed == api_key_file # "ok"

\* C11: a run whose credential file is missing or malformed makes no call to
\* the brokerage (portfolio, price or order), never gets a client, and exits
\* with a non-zero code; every other run that was not aborted at the prompt,
\* those with no balances or an empty plan among them, exits with code 0.
C11_ExitCodes ==
    /\ StartupFailed =>
          /\ ~client
          /\ portfolio.kind = "not_asked"
          /\ price_calls = <<>>
          /\ orders = <<>>
          /\ pc \in {"load_credentials", "exit", "done"}
          /\ pc = "done" => (exit_code # 0 /\ exit_code # 0 - 1)
    /\ (pc = "done" /\ ~StartupFailed /\ ~Declined) => exit_code = 0
    /\ pc # "done" => exit_code = 0 - 1

C11_Witness ==
    /\ pc = "done"
    /\ ~StartupFailed
    /\ balances # <<>>
    /\ liquidation_plan = <<>>
    /\ exit_code = 0

\* C12: no step changes a result that is already in the result list, in any
\* field or in the set of its fields.
C12_ResultsNeverMutated ==
    [][\A i \in DOMAIN executed_trades :
          /\ i \in DOMAIN executed_trades'
          /\ DOMAIN executed_trades'[i] = DOMAIN executed_trades[i]
          /\ executed_trades'[i] = executed_trades[i]]_vars

\* The seven columns the spec gives the report.
SevenColumns == {"currency", "amount", "usd_value", "order_id", "status", "timestamp", "error"}

\* C13: a report written for a list of results has the seven columns as its
\* header, in the spec's order, and one row per result, in the list's order;
\* every row has exactly the seven columns, whatever its status; the error of
\* a result that has none (EXECUTED, TRIAL) and the order id of a FAILED one
\* are empty in the row, and the error of a FAILED one is not.
C13_SevenColumns ==
    \A k \in DOMAIN reports :
        LET rows == reports[k].rows
        IN  /\ Len(rows) = Len(executed_trades)
            /\ rows # <<>> =>
                  reports[k].header = <<"currency", "amount", "usd_value", "order_id",
                                        "status", "timestamp", "error">>
            /\ \A i \in DOMAIN rows :
                  /\ DOMAIN rows[i] = SevenColumns
                  /\ rows[i].currency = liquidation_plan[i].currency
                  /\ rows[i].status = executed_trades[i].status
                  /\ rows[i].status \in {"EXECUTED", "FAILED", "TRIAL"}
                  /\ rows[i].status \in {"EXECUTED", "TRIAL"} =>
                        (rows[i].error = <<>> /\ rows[i].order_id # <<>>)
                  /\ rows[i].status = "FAILED" =>
                        /\ rows[i].order_id = <<>>
                        /\ rows[i].error # <<>>
                        /\ rows[i].error = classify_error(outcomes[i].message)

C13_Witness ==
    /\ pc = "done"
    /\ Len(reports) = 1
    /\ Len(reports[1].rows) = 2
    /\ reports[1].rows[1].status = "EXECUTED"
    /\ reports[1].rows[1].error = <<>>
    /\ reports[1].rows[2].status = "FAILED"
    /\ reports[1].rows[2].order_id = <<>>

\* C14 as stated: when a run that loaded its credentials has ended, it has
\* written exactly one report.
C14_ReportEveryRun == (pc = "done" /\ client) => Len(reports) = 1

\* C14 as amended: a run never writes more than one report; when it has ended
\* it has written one exactly if it went through the execution step (a plan
\* that is not empty, and in live mode the user's CONFIRM), and none if it
\* ended early; the file's name carries the mode and the time of writing.
C14_OneReportWhenExecuted ==
    /\ Len(reports) <= 1
    /\ pc = "done" =>
          (Len(reports) = 1 <=> (client /\ liquidation_plan # <<>> /\ ~Declined))
    /\ \A k \in DOMAIN reports :
          /\ SubSeq(reports[k].filename, 1, 3) =
                <<"coinbase_liquidation_report_", IF live_mode THEN "live" ELSE "trial", "_">>
          /\ \E t \in 0..clock :
                SubSeq(reports[k].filename, 4, Len(reports[k].filename)) =
                    IntToStr(t) \o <<".csv">>

C14_Witness ==
    /\ pc = "done"
    /\ live_mode
    /\ confirmation = "CONFIRM"
    /\ Len(reports) = 1
    /\ clock > 0

\* The entries of the lookup list whose first lookup was made.
LookedUp == IF pc = "price_retry" THEN price_idx ELSE price_idx - 1

FirstCalls == SelectSeq(price_calls, LAMBDA c : c.attempt = "first")

\* C15: the first lookups are one per entry of the lookup list, in the list's
\* order; a retry follows a first lookup of the same product that was answered
\* 429, and nothing else; a first lookup answered 429 is followed by one
\* retry, and after a retry or a first lookup that failed otherwise the next
\* call, if any, is the first lookup of the next entry (at most two calls per
\* entry); a currency has a price only if a lookup of it returned one; and
\* when the loop has ended every entry was looked up.
C15_RetryOnceOnRateLimit ==
    /\ Len(FirstCalls) = LookedUp
    /\ \A n \in DOMAIN FirstCalls : FirstCalls[n].product_id = product_id(needing[n])
    /\ \A j \in DOMAIN price_calls :
          LET call == price_calls[j]
          IN  /\ call.attempt = "retry" =>
                    /\ j > 1
                    /\ price_calls[j - 1].attempt = "first"
                    /\ price_calls[j - 1].answer = "http_429"
                    /\ price_calls[j - 1].product_id = call.product_id
                    /\ j < Len(price_calls) => price_calls[j + 1].attempt = "first"
              /\ (call.attempt = "first" /\ call.answer = "http_429") =>
                    IF j < Len(price_calls)
                    THEN price_calls[j + 1].attempt = "retry"
                    ELSE pc = "price_retry"
              /\ (call.attempt = "first" /\ call.answer # "http_429") =>
                    (j < Len(price_calls) => price_calls[j + 1].attempt = "first")
    /\ Len(price_calls) <= 2 * LookedUp
    /\ \A c \in DOMAIN prices :
          \E j \in DOMAIN price_calls :
              price_calls[j].product_id = product_id(c) /\ price_calls[j].answer = "price"
    /\ \A n \in DOMAIN needing :
          (~\E j \in DOMAIN price_calls :
                price_calls[j].product_id = product_id(needing[n])
                /\ price_calls[j].answer = "price") => needing[n] \notin DOMAIN prices
    /\ pc \in {"build", "planned"} => LookedUp = Len(needing)

C15_Witness ==
    /\ pc = "planned"
    /\ Len(needing) = 3
    /\ Len(price_calls) = 4
    /\ price_calls[1].answer = "http_429"
    /\ price_calls[2].attempt = "retry"
    /\ price_calls[2].answer = "http_429"
    /\ price_calls[3].answer = "http_500"
    /\ price_calls[4].attempt = "first"
    /\ prices = <<>>

\* C16: in live mode every entry of the plan handled so far has had exactly
\* one create_order call, for its own product, and one result; the result is
\* EXECUTED exactly when that call returned and FAILED exactly when it raised,
\* there is no other status, and when execute_liquidation has returned the
\* calls are as many as the plan's entries.
C16_OneCallOneOutcome ==
    live_mode =>
        /\ Len(orders) = Len(outcomes)
        /\ Len(outcomes) = Len(executed_trades)
        /\ Len(orders) = trade_idx - 1
        /\ \A i \in DOMAIN orders :
              /\ orders[i].product_id = product_id(liquidation_plan[i].currency)
              /\ orders[i].side = "SELL"
              /\ executed_trades[i].currency = liquidation_plan[i].currency
              /\ executed_trades[i].status \in {"EXECUTED", "FAILED"}
              /\ executed_trades[i].status = "EXECUTED" <=> outcomes[i].kind = "returned"
              /\ executed_trades[i].status = "FAILED" <=> outcomes[i].kind = "raised"
        /\ Executed => Len(orders) = Len(liquidation_plan)

C16_Witness ==
    /\ live_mode
    /\ pc = "done"
    /\ Len(liquidation_plan) = 2
    /\ Len(orders) = 2
    /\ outcomes[1].kind = "returned"
    /\ executed_trades[1].status = "EXECUTED"
    /\ outcomes[2].kind = "raised"
    /\ executed_trades[2].status = "FAILED"

====
